---- MODULE Spec2Model ----
(***************************************************************************)
(* The generic mail driver of Zero-IMAP-SMTP: GenericMailManager over      *)
(* ImapService, SmtpService and Pop3Service.                               *)
(*                                                                         *)
(* Every caller is an async call chain.  A step of the model is what the   *)
(* JavaScript event loop runs without interruption: the completion of the  *)
(* awaited library call together with the synchronous code that follows it *)
(* up to the next awaited library call (or the end of the manager call).   *)
(* The protocol libraries (imapflow, nodemailer, poplib) are the           *)
(* environment: each awaited call either succeeds or fails.                *)
(***************************************************************************)
EXTENDS Integers, Sequences, FiniteSets, TLC

VARIABLES
    usable,      \* ImapFlow client.usable
    cstate,      \* ImapFlow client.state
    lockOwner,   \* the caller the client's mailbox lock is granted to, 0 = free
    mbox,        \* the server's mailboxes: folder -> sequence of messages
    uidNext,     \* the server's next UID per folder
    pop3cfg,     \* config.auth.pop3 is set (the manager has a pop3Service)
    conn,        \* the connection record: what was entered, stored and built
    popClient,   \* Pop3Service.client: 0 = null, n = the n-th POP3Client made
    popConnected,\* Pop3Service.connected
    popLogins,   \* the clients whose login has not been answered yet
    popCount,    \* number of messages of the POP3 maildrop
    smtpSent,    \* number of messages the SMTP transport accepted
    lastMark,    \* history: per INBOX UID, the last \Seen store made for markAsRead / markAsUnread
    procs,       \* caller -> the state of its manager call
    calls        \* number of manager calls started so far

vars == <<usable, cstate, lockOwner, mbox, uidNext, pop3cfg, conn, popClient,
          popConnected, popLogins, popCount, smtpSent, lastMark, procs, calls>>

-----------------------------------------------------------------------------
(* Bounds of the model *)

MaxMsgs == 2        \* messages in INBOX (and in Drafts) at the start
MaxCalls == 2       \* manager calls started in one behaviour
MaxPage == 2         \* largest maxResults / pageToken a caller passes
MaxParts == 4        \* most parts of a body structure
MaxPwd == 2          \* longest password

Procs == {1, 2}
Folders == {"INBOX", "Trash", "Archive", "Drafts"}

(* Program constants *)
DefaultLast == 100  \* fetchRange = '1:100'

-----------------------------------------------------------------------------
(* Values *)

NoErr == [code |-> 0, origin |-> 0, cause |-> 0]
\* a library error raised inside the i-th service call of the manager call
RawErr(i) == [code |-> 1, origin |-> i, cause |-> 0]
\* new StandardizedError(msg, code, cause)
StdErr(code, cause) == [code |-> code, origin |-> 0, cause |-> cause]

NoTok == [k |-> "none", n |-> 0]
NumTok(n) == [k |-> "num", n |-> n]
StrTok(n) == [k |-> "str", n |-> n]

NoOut == [found |-> FALSE, flags |-> {}, uids |-> <<>>, threads |-> <<>>,
          token |-> NoTok, read |-> FALSE, hasUnread |-> FALSE, labels |-> {},
          id |-> "", success |-> FALSE,
          textBody |-> 0, htmlBody |-> 0, atts |-> <<>>,
          bodyPlain |-> 0, bodyHtml |-> 0, attachments |-> <<>>,
          replyOf |-> 0]   \* history: the call whose command the reply answered

Ev(e, i, u) == [e |-> e, i |-> i, u |-> u]

\* Pop3Config without its auth; "none", 0 stand for an absent value
NoPop3 == [host |-> "none", port |-> 0, tls |-> "none"]
NoInput == [password |-> <<>>, pop3Host |-> "none", pop3Port |-> 0, pop3Tls |-> "none"]
NoStored == [encryptedPassword |-> <<>>, pop3Host |-> "none", pop3Port |-> 0,
             pop3Tls |-> "none"]
NoConfig == [passwordPlainText |-> <<>>, pop3 |-> NoPop3]
NoConn == [stage |-> "none", input |-> NoInput, stored |-> NoStored, config |-> NoConfig]

IdleProc == [op |-> "idle", ids |-> <<>>, folder |-> "", pageToken |-> NoTok,
             maxResults |-> 0, add |-> {}, rm |-> {}, pc |-> 0, await |-> "none",
             lock |-> FALSE, total |-> 0, caught |-> NoErr, st |-> "idle",
             err |-> NoErr, out |-> NoOut, trace |-> <<>>,
             part |-> 0,    \* the body part whose download is awaited
             client |-> 0,  \* the POP3 client the awaited command was sent on
             ticket |-> 0,  \* its place among the commands awaiting a reply
             pages |-> <<>>, \* history: the pages the caller got before this call
             fails |-> 0]   \* history: commands of this call that failed

-----------------------------------------------------------------------------
(* The server's mailboxes.  A message is [mid, uid, flags]: mid is the     *)
(* identity of the message wherever it is stored, uid its UID in the       *)
(* folder that holds it.  The id a caller passes is taken as the UID, as   *)
(* the parameter names and comments of ImapService take it.                *)

\* A MIME part as findBodyParts reads it: part.type, part.disposition ("" when
\* there is none) and whether part.filename is set
Part(type, disp, file) == [type |-> type, disp |-> disp, file |-> file]
PlainBody == Part("text/plain", "", FALSE)
HtmlBody == Part("text/html", "", FALSE)
PdfAttachment == Part("application/pdf", "attachment", TRUE)
PdfNamed == Part("application/pdf", "", TRUE)
TextAttachment == Part("text/plain", "attachment", TRUE)
Multipart == Part("multipart/mixed", "", FALSE)
Rfc822Attachment == Part("message/rfc822", "attachment", TRUE)
Leaves == {PlainBody, HtmlBody, PdfAttachment, PdfNamed, TextAttachment}
Containers == {Multipart, Rfc822Attachment}

\* message.bodyStructure: the part tree listed in depth-first order, the root
\* first.  Only a container has childNodes, and a container has at least one.
WellFormed(t) ==
    /\ t[Len(t)] \in Leaves
    /\ Len(t) > 1 => t[1] \in Containers
Trees == {t \in UNION {[1..n -> Leaves \cup Containers] : n \in 1..MaxParts} :
            WellFormed(t)}

Msg(mid, uid, flags) ==
    [mid |-> mid, uid |-> uid, flags |-> flags, parts |-> <<PlainBody>>]

\* position of the message with UID id in folder mb, 0 when there is none
FindIn(s, id) ==
    LET hits == {k \in 1..Len(s) : s[k].uid = id}
    IN  IF hits = {} THEN 0 ELSE CHOOSE k \in hits : TRUE

Find(mb, id) == FindIn(mbox[mb], id)

\* the messages with sequence numbers a..b of a folder (FETCH a:b)
FetchRange(mb, a, b) ==
    LET hi == IF b < Len(mbox[mb]) THEN b ELSE Len(mbox[mb])
    IN  IF a < 1 \/ a > hi THEN <<>> ELSE SubSeq(mbox[mb], a, hi)

Remove(s, k) == SubSeq(s, 1, k - 1) \o SubSeq(s, k + 1, Len(s))

\* STORE +FLAGS / -FLAGS on the message with UID id
StoreFlags(mb, id, flag, adding) ==
    LET k == Find(mb, id)
    IN  IF k = 0 THEN mbox
        ELSE [mbox EXCEPT ![mb][k].flags =
                 IF adding THEN @ \cup {flag} ELSE @ \ {flag}]

\* MOVE of the message with UID id to folder dest: it leaves mb and arrives in
\* dest under dest's next UID
MoveMsg(mb, id, dest) ==
    LET k == Find(mb, id)
    IN  IF k = 0 THEN mbox
        ELSE [mbox EXCEPT ![mb] = Remove(@, k),
                          ![dest] = Append(@, [mbox[mb][k] EXCEPT !.uid = uidNext[dest]])]

MoveUidNext(mb, id, dest) ==
    IF Find(mb, id) = 0 THEN uidNext ELSE [uidNext EXCEPT ![dest] = @ + 1]

-----------------------------------------------------------------------------
(* GenericMailManager: the service calls of each manager operation, in the  *)
(* order the operation awaits them.                                          *)

Svc(svc, mb, id, arg) == [svc |-> svc, mb |-> mb, id |-> id, arg |-> arg]

ImapSvcs == {"listMailboxes", "listMessages", "fetchMessage", "downloadAttachment",
             "setFlags", "unsetFlags", "moveMessage", "connect", "disconnect"}
LockedSvcs == {"listMessages", "fetchMessage", "downloadAttachment",
               "setFlags", "unsetFlags", "moveMessage"}
PopSvcs == {"pop3fetch", "pop3list"}

\* this.pop3Service ? ... : ...   (get and list)
UsePop3ForReadsNever(cfg) == FALSE
UsePop3ForReads(cfg) == cfg

\* const mailbox = 'INBOX' in get, markAsRead, markAsUnread, delete,
\* getAttachment and modifyLabels; this.DRAFTS_FOLDER in getDraft and sendDraft
MailboxOfAlwaysDrafts(op) == "Drafts"
MailboxOf(op) == IF op \in {"getDraft", "sendDraft"} THEN "Drafts" ELSE "INBOX"

\* one id of modifyLabels: flag changes first, then at most one move
LabelStepsStarredAsFlagged(id, add, rm) ==
       (IF "STARRED" \in add THEN <<Svc("setFlags", "INBOX", id, "Flagged")>> ELSE <<>>)
    \o (IF "IMPORTANT" \in add THEN <<Svc("setFlags", "INBOX", id, "Flagged")>> ELSE <<>>)
    \o (IF "STARRED" \in rm THEN <<Svc("unsetFlags", "INBOX", id, "Starred")>> ELSE <<>>)
    \o (IF "IMPORTANT" \in rm THEN <<Svc("unsetFlags", "INBOX", id, "Flagged")>> ELSE <<>>)
    \o (IF "TRASH" \in add THEN <<Svc("moveMessage", "INBOX", id, "Trash")>>
        ELSE IF "INBOX" \in rm /\ "TRASH" \notin add
             THEN <<Svc("moveMessage", "INBOX", id, "Archive")>>
             ELSE <<>>)
LabelStepsBothMoves(id, add, rm) ==
       (IF "STARRED" \in add THEN <<Svc("setFlags", "INBOX", id, "Starred")>> ELSE <<>>)
    \o (IF "IMPORTANT" \in add THEN <<Svc("setFlags", "INBOX", id, "Flagged")>> ELSE <<>>)
    \o (IF "STARRED" \in rm THEN <<Svc("unsetFlags", "INBOX", id, "Starred")>> ELSE <<>>)
    \o (IF "IMPORTANT" \in rm THEN <<Svc("unsetFlags", "INBOX", id, "Flagged")>> ELSE <<>>)
    \o (IF "TRASH" \in add THEN <<Svc("moveMessage", "INBOX", id, "Trash")>> ELSE <<>>)
    \o (IF "INBOX" \in rm THEN <<Svc("moveMessage", "INBOX", id, "Archive")>> ELSE <<>>)
LabelStepsMoveFirst(id, add, rm) ==
       (IF "TRASH" \in add THEN <<Svc("moveMessage", "INBOX", id, "Trash")>>
        ELSE IF "INBOX" \in rm /\ "TRASH" \notin add
             THEN <<Svc("moveMessage", "INBOX", id, "Archive")>>
             ELSE <<>>)
    \o (IF "STARRED" \in add THEN <<Svc("setFlags", "INBOX", id, "Starred")>> ELSE <<>>)
    \o (IF "IMPORTANT" \in add THEN <<Svc("setFlags", "INBOX", id, "Flagged")>> ELSE <<>>)
    \o (IF "STARRED" \in rm THEN <<Svc("unsetFlags", "INBOX", id, "Starred")>> ELSE <<>>)
    \o (IF "IMPORTANT" \in rm THEN <<Svc("unsetFlags", "INBOX", id, "Flagged")>> ELSE <<>>)
LabelSteps(id, add, rm) ==
       (IF "STARRED" \in add THEN <<Svc("setFlags", "INBOX", id, "Starred")>> ELSE <<>>)
    \o (IF "IMPORTANT" \in add THEN <<Svc("setFlags", "INBOX", id, "Flagged")>> ELSE <<>>)
    \o (IF "STARRED" \in rm THEN <<Svc("unsetFlags", "INBOX", id, "Starred")>> ELSE <<>>)
    \o (IF "IMPORTANT" \in rm THEN <<Svc("unsetFlags", "INBOX", id, "Flagged")>> ELSE <<>>)
    \o (IF "TRASH" \in add THEN <<Svc("moveMessage", "INBOX", id, "Trash")>>
        ELSE IF "INBOX" \in rm /\ "TRASH" \notin add
             THEN <<Svc("moveMessage", "INBOX", id, "Archive")>>
             ELSE <<>>)

RECURSIVE LabelPlan(_, _, _)
LabelPlan(ids, add, rm) ==
    IF ids = <<>> THEN <<>>
    ELSE LabelSteps(Head(ids), add, rm) \o LabelPlan(Tail(ids), add, rm)

\* sendDraft: await this.create(data), then setFlags(DRAFTS_FOLDER, id,
\* ['\\Deleted'])
SendDraftStepsFlagFirst(id) ==
    <<Svc("setFlags", MailboxOf("sendDraft"), id, "Deleted"), Svc("sendMail", "", 0, "")>>
SendDraftSteps(id) ==
    <<Svc("sendMail", "", 0, ""), Svc("setFlags", MailboxOf("sendDraft"), id, "Deleted")>>

Plan(pr) ==
    CASE pr.op = "get" ->
           IF UsePop3ForReads(pop3cfg) THEN <<Svc("pop3fetch", "", pr.ids[1], "")>>
           ELSE <<Svc("fetchMessage", MailboxOf(pr.op), pr.ids[1], "")>>
      [] pr.op = "list" ->
           IF UsePop3ForReads(pop3cfg) THEN <<Svc("pop3list", "", 0, "")>>
           ELSE <<Svc("listMessages", pr.folder, 0, "")>>
      [] pr.op = "markAsRead" ->
           [k \in 1..Len(pr.ids) |-> Svc("setFlags", MailboxOf(pr.op), pr.ids[k], "Seen")]
      [] pr.op = "markAsUnread" ->
           [k \in 1..Len(pr.ids) |-> Svc("unsetFlags", MailboxOf(pr.op), pr.ids[k], "Seen")]
      [] pr.op = "delete" ->
           <<Svc("moveMessage", MailboxOf(pr.op), pr.ids[1], "Trash"),
             Svc("setFlags", MailboxOf(pr.op), pr.ids[1], "Deleted")>>
      [] pr.op = "getAttachment" ->
           <<Svc("downloadAttachment", MailboxOf(pr.op), pr.ids[1], "")>>
      [] pr.op = "sendDraft" -> SendDraftSteps(pr.ids[1])
      [] pr.op = "getDraft" ->
           <<Svc("fetchMessage", MailboxOf(pr.op), pr.ids[1], "")>>
      [] pr.op = "create" -> <<Svc("sendMail", "", 0, "")>>
      [] pr.op = "modifyLabels" -> LabelPlan(pr.ids, pr.add, pr.rm)
      [] pr.op = "getUserLabels" -> <<Svc("listMailboxes", "", 0, "")>>
      [] pr.op = "imapConnect" -> <<Svc("connect", "", 0, "")>>
      [] pr.op = "imapDisconnect" -> <<Svc("disconnect", "", 0, "")>>
      [] OTHER -> <<>>

Cur(pr) == Plan(pr)[pr.pc]

-----------------------------------------------------------------------------
(* JavaScript values *)

\* truthiness of params.pageToken (a number, a non-empty string, or absent)
Truthy(tok) == (tok.k = "num" /\ tok.n # 0) \/ tok.k = "str"

Digits(n) == IF n < 10 THEN 1 ELSE IF n < 100 THEN 2 ELSE 3
Pow10(d) == IF d = 1 THEN 10 ELSE IF d = 2 THEN 100 ELSE 1000

\* startSeq + count - 1: + adds numbers and concatenates onto a string, and the
\* following - 1 turns the concatenation back into a number
PlusCountMinus1(tok, count) ==
    IF tok.k = "str" THEN tok.n * Pow10(Digits(count)) + count - 1
    ELSE tok.n + count - 1

Max(a, b) == IF a > b THEN a ELSE b

\* ImapService.listMessages: the sequence range that is fetched
FetchBoundsOffByOne(startSeq, count, total) ==
    IF Truthy(startSeq) /\ count # 0
    THEN [a |-> startSeq.n, b |-> PlusCountMinus1(startSeq, count)]
    ELSE IF count # 0
         THEN [a |-> Max(1, total - count), b |-> total]
         ELSE [a |-> 1, b |-> DefaultLast]
FetchBounds(startSeq, count, total) ==
    IF Truthy(startSeq) /\ count # 0
    THEN [a |-> startSeq.n, b |-> PlusCountMinus1(startSeq, count)]
    ELSE IF count # 0
         THEN [a |-> Max(1, total - count + 1), b |-> total]
         ELSE [a |-> 1, b |-> DefaultLast]

\* the status query is made when only a count is given
NeedsStatus(startSeq, count) == ~(Truthy(startSeq) /\ count # 0) /\ count # 0

-----------------------------------------------------------------------------
(* ImapService.fetchMessage: the walk over message.bodyStructure.  A part   *)
(* is named by its position in the depth-first listing, and the content    *)
(* that client.download returns for a part is named by the same position.  *)

\* the parts findBodyParts is called on: the childNodes of the root and all
\* below them when the root has childNodes, the root itself otherwise
Visited(parts) == IF Len(parts) > 1 THEN 2..Len(parts) ELSE {1}

\* part.type === 'text/plain' && !part.disposition
IsPlainBody(part) == part.type = "text/plain" /\ part.disp = ""
\* part.type === 'text/html' && !part.disposition
IsHtmlBody(part) == part.type = "text/html" /\ part.disp = ""

\* part.disposition === 'attachment' || (part.filename && part.type !==
\* 'text/plain' && part.type !== 'text/html')
IsAttachmentNever(part) == FALSE
IsAttachment(part) ==
    \/ part.disp = "attachment"
    \/ (part.file /\ part.type # "text/plain" /\ part.type # "text/html")

\* the next part after position after whose content the walk downloads, 0
\* when the walk downloads no more
NextDownload(parts, after) ==
    LET todo == {i \in Visited(parts) :
                   i > after /\ (IsPlainBody(parts[i]) \/ IsHtmlBody(parts[i]))}
    IN  IF todo = {} THEN 0 ELSE CHOOSE i \in todo : \A j \in todo : i <= j

Content(i) == i

\* textBody = strContent / htmlBody = strContent, after the download of part i
Downloaded(pr, parts) ==
    IF IsPlainBody(parts[pr.part])
    THEN [pr EXCEPT !.out.textBody = Content(pr.part)]
    ELSE [pr EXCEPT !.out.htmlBody = Content(pr.part)]

\* attachments.push({ partID, type, ... }) for the parts visited, in order
AttachmentsOf(parts) ==
    LET idx == SelectSeq([i \in 1..Len(parts) |-> i],
                         LAMBDA i : i \in Visited(parts) /\ IsAttachment(parts[i]))
    IN  [k \in 1..Len(idx) |-> [partID |-> idx[k], type |-> parts[idx[k]].type]]

-----------------------------------------------------------------------------
(* The end of a manager call and the results it maps *)

Note(pr, e, u) == [pr EXCEPT !.trace = Append(@, Ev(e, pr.pc, u))]

DoneOk(pr) == [Note(pr, "return", TRUE) EXCEPT !.st = "ok", !.await = "none"]
DoneErr(pr, e) == [Note(pr, "throw", TRUE) EXCEPT !.st = "err", !.err = e, !.await = "none"]

\* mapImapMessageToParsedMessage: read: msg.flags.includes('\\Seen')
ReadOfFlagged(flags) == "Flagged" \in flags
ReadOf(flags) == "Seen" \in flags

\* GenericMailManager.get: the response built from the fetched message; a POP3
\* message is a raw string and goes through parsePop3Message
MapGet(pr) ==
    IF Cur(pr).svc = "pop3fetch"
    THEN [pr EXCEPT !.out.read = FALSE, !.out.hasUnread = TRUE, !.out.labels = {}]
    ELSE [pr EXCEPT !.out.read = ReadOf(pr.out.flags),
                    !.out.hasUnread = "Seen" \notin pr.out.flags,
                    !.out.labels = pr.out.flags,
                    !.out.bodyPlain = pr.out.textBody,
                    !.out.bodyHtml = pr.out.htmlBody,
                    !.out.attachments =
                        [k \in 1..Len(pr.out.atts) |->
                            [id |-> pr.out.atts[k].partID,
                             contentType |-> pr.out.atts[k].type]]]

\* GenericMailManager.list: nextPageToken
NextPageToken(uids, maxResults) ==
    IF Len(uids) > 0 /\ maxResults # 0 /\ Len(uids) = maxResults
    THEN StrTok(uids[Len(uids)] + 1)
    ELSE NoTok

MapList(pr) ==
    [pr EXCEPT !.out.threads = [k \in 1..Len(pr.out.uids) |-> StrTok(pr.out.uids[k])],
               !.out.token = NextPageToken(pr.out.uids, pr.maxResults)]

\* a rejected POP3 promise: get turns it into null and then into 404
PopReject(pr) ==
    LET q == [pr EXCEPT !.fails = @ + 1]
    IN  IF q.op = "get" THEN DoneErr(q, StdErr(404, 0)) ELSE DoneErr(q, RawErr(q.pc))

-----------------------------------------------------------------------------
(* ImapService: the synchronous start of a service call *)

Issue(pr, cmd, u) == [Note(pr, cmd, u) EXCEPT !.await = cmd]

\* connectIfNeeded: if (!this.client.usable || this.client.state === LOGOUT)
NeedsConnectNever(us, cs) == FALSE
NeedsConnect(us, cs) == ~us \/ cs = "LOGOUT"

\* connect: if (this.client.usable) return
ConnectSkipsNever(us) == FALSE
ConnectSkips(us) == us

\* disconnect: if (!this.client.usable && this.client.state === LOGOUT) return
DisconnectSkipsNever(us, cs) == FALSE
DisconnectSkips(us, cs) == ~us /\ cs = "LOGOUT"

FirstCmd(pr) ==
    LET c == Cur(pr)
    IN  CASE c.svc = "listMessages" ->
               IF NeedsStatus(pr.pageToken, pr.maxResults) THEN "status" ELSE "fetch"
          [] c.svc = "fetchMessage" -> "fetchOne"
          [] c.svc = "downloadAttachment" -> "download"
          [] c.svc = "setFlags" -> "messageFlagsAdd"
          [] c.svc = "unsetFlags" -> "messageFlagsRemove"
          [] c.svc = "moveMessage" -> "messageMove"

\* what follows await this.connectIfNeeded()
AfterConnect(pr, us) ==
    CASE Cur(pr).svc = "listMailboxes" -> Issue(pr, "list", us)
      [] Cur(pr).svc = "connect" -> DoneOk(pr)
      [] OTHER -> Issue(pr, "lock", us)

\* this.client.retr(id) / this.client.list(), then client.on(..., listener)
\* with const client = this.client
PopWaiting == {q \in Procs : procs[q].await \in {"retr", "popList"}}
NextTicket ==
    IF PopWaiting = {} THEN 1
    ELSE 1 + (CHOOSE n \in {procs[q].ticket : q \in PopWaiting} :
                 \A q \in PopWaiting : procs[q].ticket <= n)
PopSend(pr, us) ==
    [Issue(pr, IF Cur(pr).svc = "pop3fetch" THEN "retr" ELSE "popList", us)
        EXCEPT !.client = popClient, !.ticket = NextTicket]

Enter(pr, i, us, cs) ==
    LET q == Note([pr EXCEPT !.pc = i, !.lock = FALSE, !.total = 0], "enter", us)
        c == Cur(q)
    IN  CASE c.svc = "connect" ->
               IF ConnectSkips(us) THEN DoneOk(q) ELSE Issue(q, "connect", us)
          [] c.svc = "disconnect" ->
               IF DisconnectSkips(us, cs) THEN DoneOk(q) ELSE Issue(q, "logout", us)
          [] c.svc \in ImapSvcs \ {"connect", "disconnect"} ->
               IF NeedsConnect(us, cs) /\ ~ConnectSkips(us)
               THEN Issue(q, "connect", us)
               ELSE AfterConnect(q, us)
          [] c.svc = "sendMail" -> Issue(q, "sendMail", us)
          [] c.svc \in PopSvcs ->
               IF popClient = 0 THEN PopReject(q)
               ELSE IF ~popConnected THEN Issue(q, "popConnect", us)
               ELSE PopSend(q, us)

\* finally { if (lock) lock.release(); }
ReleasesOnReturnOnly(lock, threw) == lock /\ ~threw
Releases(lock, threw) == lock

Exit(pr, threw) ==
    IF Releases(pr.lock, threw) THEN Note(pr, "release", TRUE) ELSE pr

-----------------------------------------------------------------------------
(* GenericMailManager: what the operation does when a service call returns *)
(* or throws                                                               *)

\* delete, after the fallback setFlags returned: throw new StandardizedError(
\* ..., 500, error) with the caught move error as its cause
DeleteAfterFallbackSwallows(pr) == DoneOk(pr)
DeleteAfterFallback(pr) == DoneErr(pr, StdErr(500, pr.caught.origin))

\* createDraft: return { id: `mockDraft_${Date.now()}`, success: true }
CreateDraftResultNoId(pr) == [pr EXCEPT !.out.success = TRUE]
CreateDraftResult(pr) == [pr EXCEPT !.out.id = "mockDraft", !.out.success = TRUE]

\* get: if (!fetchedMessage) throw new StandardizedError('Message not found',
\* 404), else the mapped message
GetResultAlwaysOk(pr) == DoneOk(MapGet(pr))
GetResult(pr) ==
    IF pr.out.found THEN DoneOk(MapGet(pr)) ELSE DoneErr(pr, StdErr(404, 0))

\* the result of an operation that awaits nothing
Immediate(pr) == DoneOk(IF pr.op = "createDraft" THEN CreateDraftResult(pr) ELSE pr)

OnReturn(pr, us, cs) ==
    CASE pr.op = "delete" ->
           IF pr.pc = 1 THEN DoneOk(pr) ELSE DeleteAfterFallback(pr)
      [] pr.op = "get" -> GetResult(pr)
      [] pr.op = "list" -> DoneOk(MapList(pr))
      \* getAttachment: if (!stream) return undefined; else the chunks of the
      \* stream are awaited
      [] pr.op = "getAttachment" ->
           IF pr.out.found THEN Issue(pr, "read", us) ELSE DoneOk(pr)
      [] pr.op = "getDraft" ->
           IF pr.out.found /\ "Draft" \in pr.out.flags THEN DoneOk(pr)
           ELSE DoneErr(pr, StdErr(404, 0))
      [] OTHER ->
           IF pr.pc < Len(Plan(pr)) THEN Enter(pr, pr.pc + 1, us, cs) ELSE DoneOk(pr)

\* SmtpService.sendMail: catch (error) { throw error }
SmtpRethrowWrapped(e) == StdErr(500, e.origin)
SmtpRethrow(e) == e

\* a for loop over the ids without try / catch: the rejection of an awaited
\* service call leaves the loop and the operation
PropagateAfterBatch(pr, e, us, cs) ==
    IF pr.pc < Len(Plan(pr)) THEN Enter(pr, pr.pc + 1, us, cs) ELSE DoneErr(pr, e)
Propagate(pr, e, us, cs) == DoneErr(pr, e)

OnThrow(pr0, e, us, cs) ==
    LET pr == [pr0 EXCEPT !.fails = @ + 1]
    IN  CASE pr.op = "delete" /\ pr.pc = 1 -> Enter([pr EXCEPT !.caught = e], 2, us, cs)
          [] pr.op = "sendDraft" /\ Cur(pr).svc = "setFlags" ->
               DoneErr(pr, StdErr(500, e.origin))
          [] Cur(pr).svc = "sendMail" -> DoneErr(pr, SmtpRethrow(e))
          [] OTHER -> Propagate(pr, e, us, cs)

-----------------------------------------------------------------------------
(* The calls a caller may start *)

Ids == {1, 2}
One(op, id) == [op |-> op, ids |-> <<id>>, folder |-> "", pageToken |-> NoTok,
                maxResults |-> 0, add |-> {}, rm |-> {}]
Many(op, ids, add, rm) == [op |-> op, ids |-> ids, folder |-> "", pageToken |-> NoTok,
                           maxResults |-> 0, add |-> add, rm |-> rm]
Listing(folder, tok, n) == [op |-> "list", ids |-> <<>>, folder |-> folder,
                            pageToken |-> tok, maxResults |-> n, add |-> {}, rm |-> {}]
Plain(op) == [op |-> op, ids |-> <<>>, folder |-> "", pageToken |-> NoTok,
              maxResults |-> 0, add |-> {}, rm |-> {}]

Toks == {NoTok} \cup {NumTok(n) : n \in 1..MaxPage} \cup {StrTok(n) : n \in 1..MaxPage}

\* the calls made on a manager without POP3
MainCalls ==
        {One(op, id) : op \in {"get", "delete"}, id \in Ids}
   \cup {One("sendDraft", 1)}
   \cup {Many("markAsRead", <<1>>, {}, {}), Many("markAsUnread", <<2>>, {}, {})}
   \cup {Listing("INBOX", NoTok, MaxPage)}
   \cup {Plain(op) : op \in {"getUserLabels", "imapConnect", "imapDisconnect"}}

\* the calls made on a manager with or without POP3
PopCalls ==
        {One(op, id) : op \in {"get"}, id \in Ids}
   \cup {One("delete", 1), One("sendDraft", 1)}
   \cup {Many("markAsRead", <<1>>, {}, {}), Many("markAsUnread", <<2>>, {}, {})}
   \cup {Many("modifyLabels", <<1>>, {"STARRED"}, {})}
   \cup {Listing("INBOX", NoTok, MaxPage)}

\* the close paths of the two sessions, with a get that opens them
CloseCalls ==
    {Plain("imapConnect"), Plain("imapDisconnect"), Plain("popQuit"), One("get", 1)}

ListCalls == {Listing(f, t, n) : f \in {"INBOX", "Drafts"}, t \in Toks, n \in 0..MaxPage}

\* modifyLabels with the labels the manager knows
LabelCalls ==
    {Many("modifyLabels", ids, add, rm) :
        ids \in {<<1>>, <<2, 1>>},
        add \in SUBSET {"STARRED", "IMPORTANT", "TRASH"},
        rm \in SUBSET {"STARRED", "INBOX"}}

\* the operations that take a list of ids
BatchCalls ==
        {Many(op, ids, {}, {}) : op \in {"markAsRead", "markAsUnread"},
                                 ids \in {<<1, 2>>, <<2, 1>>}}
   \cup {Many("modifyLabels", ids, add, rm) :
            ids \in {<<1, 2>>, <<2, 1>>},
            add \in {{"STARRED"}, {"IMPORTANT"}, {"STARRED", "TRASH"}},
            rm \in {{}, {"INBOX"}}}

\* the operations that address one message, the draft operations and create
DraftCalls ==
        {One(op, 1) : op \in {"get", "delete", "getAttachment", "getDraft", "sendDraft"}}
   \cup {Many("markAsRead", <<1>>, {}, {}), Many("markAsUnread", <<1>>, {}, {})}
   \cup {Many("modifyLabels", <<1>>, {"STARRED"}, {})}
   \cup {Plain("create"), Plain("createDraft")}

-----------------------------------------------------------------------------
(* Initial states: the manager has just been constructed.  Its constructor  *)
(* makes the three services and, when POP3 is configured, starts            *)
(* pop3Service.connect() without awaiting it.                               *)

\* INBOX holds n messages; the even ones have been read
Inbox(n, shift) ==
    [k \in 1..n |-> Msg(k, k + shift, IF k % 2 = 0 THEN {"Seen"} ELSE {})]

InitBoxes(inbox) ==
    mbox = [f \in Folders |->
              CASE f = "INBOX" -> inbox
                [] f = "Drafts" -> <<Msg(1001, 1, {"Draft"})>>
                [] OTHER -> <<>>]

InitState(inbox, n, shift, pops) ==
    /\ usable = FALSE
    /\ cstate = "NOT_AUTHENTICATED"
    /\ lockOwner = 0
    /\ InitBoxes(inbox)
    /\ uidNext = [f \in Folders |->
                 CASE f = "INBOX" -> n + shift + 1
                   [] f = "Drafts" -> 2
                   [] OTHER -> 1]
    /\ pop3cfg \in pops
    /\ conn = NoConn
    /\ popClient = IF pop3cfg THEN 1 ELSE 0
    /\ popConnected = FALSE
    /\ popLogins = IF pop3cfg THEN {1} ELSE {}
    /\ popCount = n
    /\ smtpSent = 0
    /\ lastMark = [u \in Ids |-> "none"]
    /\ procs = [p \in Procs |-> IdleProc]
    /\ calls = 0

InitWith(n, shift, pops) == InitState(Inbox(n, shift), n, shift, pops)

Init == InitWith(MaxMsgs, 0, {FALSE})

InitPop == InitWith(MaxMsgs, 0, BOOLEAN)

InitList ==
    \E n \in (0..(MaxMsgs + 1)) \cup {DefaultLast, DefaultLast + 1} :
        \E shift \in {0, 5} : InitWith(n, shift, BOOLEAN)

-----------------------------------------------------------------------------
(* Actions *)

Set(p, pr) == procs' = [procs EXCEPT ![p] = pr]

\* a caller starts a manager call: the call runs up to its first await
Call(p, c) ==
    /\ procs[p].st = "idle"
    /\ calls < MaxCalls
    /\ calls' = calls + 1
    /\ LET q == [IdleProc EXCEPT !.op = c.op, !.ids = c.ids, !.folder = c.folder,
                                 !.pageToken = c.pageToken, !.maxResults = c.maxResults,
                                 !.add = c.add, !.rm = c.rm, !.st = "run"]
           r == IF Plan(q) = <<>> THEN Immediate(q) ELSE Enter(q, 1, usable, cstate)
       IN  /\ Set(p, r)
           \* Pop3Service.connect(): this.client = new POP3Client(...)
           \* Pop3Service.quit(): this.client?.quit(); this.client = null
           /\ popClient' = IF r.await = "popConnect" THEN p + 1
                           ELSE IF c.op = "popQuit" THEN 0 ELSE popClient
           /\ popLogins' = IF r.await = "popConnect" THEN popLogins \cup {p + 1}
                           ELSE popLogins
    /\ UNCHANGED <<usable, cstate, lockOwner, mbox, uidNext, pop3cfg, conn, popConnected,
                   popCount, smtpSent, lastMark>>

\* the caller of a list that returned a nextPageToken calls list again with
\* that token as pageToken and the same folder and maxResults
Follow(p) ==
    LET pr == procs[p]
        q == [IdleProc EXCEPT !.op = "list", !.folder = pr.folder,
                              !.pageToken = pr.out.token,
                              !.maxResults = pr.maxResults, !.st = "run",
                              !.pages = Append(pr.pages, pr.out.uids)]
    IN  /\ pr.op = "list"
        /\ pr.st = "ok"
        /\ pr.out.token # NoTok
        /\ Len(pr.pages) <= MaxMsgs + 1
        /\ Set(p, Enter(q, 1, usable, cstate))
        /\ UNCHANGED <<usable, cstate, lockOwner, mbox, uidNext, pop3cfg, conn, popClient,
                       popConnected, popLogins, popCount, smtpSent, lastMark, calls>>

\* the caller takes the result of its finished call
Retire(p) ==
    /\ procs[p].st \in {"ok", "err"}
    /\ Set(p, IdleProc)
    /\ UNCHANGED <<usable, cstate, lockOwner, mbox, uidNext, pop3cfg, conn, popClient,
                   popConnected, popLogins, popCount, smtpSent, lastMark, calls>>

\* await this.client.connect() settles
ConnectDone(p, ok) ==
    LET pr == procs[p]
    IN  /\ pr.await = "connect"
        /\ IF ok
           THEN /\ usable' = TRUE
                /\ cstate' = "AUTHENTICATED"
                /\ Set(p, AfterConnect(Note(pr, "connected", TRUE), TRUE))
           ELSE /\ UNCHANGED <<usable, cstate>>
                /\ Set(p, OnThrow(pr, RawErr(pr.pc), usable, cstate))
        /\ UNCHANGED <<lockOwner, mbox, uidNext, pop3cfg, conn, popClient, popConnected,
                       popLogins, popCount, smtpSent, lastMark, calls>>

\* lock = await this.client.getMailboxLock(mailboxPath): the client grants its
\* lock to one caller at a time
LockGrantableAlways(owner) == TRUE
LockGrantable(owner) == owner = 0

LockDone(p, ok) ==
    LET pr == procs[p]
    IN  /\ pr.await = "lock"
        /\ IF ok
           THEN /\ usable
                /\ LockGrantable(lockOwner)
                /\ lockOwner' = p
                /\ Set(p, LET q == Note([pr EXCEPT !.lock = TRUE], "locked", usable)
                          IN  Issue(q, FirstCmd(q), usable))
           ELSE /\ UNCHANGED lockOwner
                /\ Set(p, OnThrow(Exit(pr, TRUE), RawErr(pr.pc), usable, cstate))
        /\ UNCHANGED <<usable, cstate, mbox, uidNext, pop3cfg, conn, popClient, popConnected,
                       popLogins, popCount, smtpSent, lastMark, calls>>

LockedCmds == {"status", "fetch", "fetchOne", "download", "messageFlagsAdd",
               "messageFlagsRemove", "messageMove"}

\* the service call returns (threw = FALSE) or throws: its finally block, then
\* the manager's continuation
Leave(p, pr, threw) ==
    /\ lockOwner' = IF Releases(pr.lock, threw) THEN 0 ELSE lockOwner
    /\ Set(p, IF threw THEN OnThrow(Exit(pr, TRUE), RawErr(pr.pc), usable, cstate)
              ELSE OnReturn(Exit(pr, FALSE), usable, cstate))

UidsOf(msgs) == [k \in 1..Len(msgs) |-> msgs[k].uid]

\* fetchMessage walks on from position after: it awaits the next download, or
\* returns the message when no part is left to download
Walk(p, pr, parts, after) ==
    LET n == NextDownload(parts, after)
    IN  IF n = 0
        THEN Leave(p, [pr EXCEPT !.out.atts = AttachmentsOf(parts)], FALSE)
        ELSE /\ Set(p, Issue([pr EXCEPT !.part = n], "download", usable))
             /\ UNCHANGED lockOwner

\* an awaited command of a mailbox-scoped service call settles
\* history: the \Seen store that markAsRead / markAsUnread made last for a UID
Marked(pr, c, what) ==
    IF pr.op \in {"markAsRead", "markAsUnread"} /\ c.id \in DOMAIN lastMark
    THEN [lastMark EXCEPT ![c.id] = what]
    ELSE lastMark

CmdDone(p, ok) ==
    LET pr == procs[p]
        c == Cur(pr)
        k == Find(c.mb, c.id)
    IN  /\ pr.await \in LockedCmds
        /\ ok => usable
        /\ IF ~ok
           THEN /\ Leave(p, pr, TRUE)
                /\ UNCHANGED <<mbox, uidNext, lastMark>>
           ELSE CASE pr.await = "status" ->
                       /\ UNCHANGED <<mbox, uidNext, lastMark>>
                       /\ IF Len(mbox[c.mb]) > 0
                          THEN /\ Set(p, Issue([pr EXCEPT !.total = Len(mbox[c.mb])],
                                               "fetch", usable))
                               /\ UNCHANGED lockOwner
                          ELSE Leave(p, [pr EXCEPT !.out.uids = <<>>], FALSE)
                  [] pr.await = "fetch" ->
                       /\ UNCHANGED <<mbox, uidNext, lastMark>>
                       /\ LET r == FetchBounds(pr.pageToken, pr.maxResults, pr.total)
                          IN  Leave(p, [pr EXCEPT !.out.uids =
                                            UidsOf(FetchRange(c.mb, r.a, r.b))], FALSE)
                  [] pr.await = "fetchOne" ->
                       /\ UNCHANGED <<mbox, uidNext, lastMark>>
                       /\ IF k = 0
                          THEN Leave(p, [pr EXCEPT !.out.found = FALSE], FALSE)
                          ELSE Walk(p, [pr EXCEPT !.out.found = TRUE,
                                                  !.out.flags = mbox[c.mb][k].flags],
                                    mbox[c.mb][k].parts, 0)
                  [] pr.await = "download" ->
                       /\ UNCHANGED <<mbox, uidNext, lastMark>>
                       /\ IF c.svc = "downloadAttachment"
                          THEN Leave(p, [pr EXCEPT !.out.found = (k # 0)], FALSE)
                          ELSE Walk(p, Downloaded(pr, mbox[c.mb][k].parts),
                                    mbox[c.mb][k].parts, pr.part)
                  [] pr.await = "messageFlagsAdd" ->
                       /\ mbox' = StoreFlags(c.mb, c.id, c.arg, TRUE)
                       /\ lastMark' = Marked(pr, c, "read")
                       /\ UNCHANGED uidNext
                       /\ Leave(p, pr, FALSE)
                  [] pr.await = "messageFlagsRemove" ->
                       /\ mbox' = StoreFlags(c.mb, c.id, c.arg, FALSE)
                       /\ lastMark' = Marked(pr, c, "unread")
                       /\ UNCHANGED uidNext
                       /\ Leave(p, pr, FALSE)
                  [] pr.await = "messageMove" ->
                       /\ mbox' = MoveMsg(c.mb, c.id, c.arg)
                       /\ uidNext' = MoveUidNext(c.mb, c.id, c.arg)
                       /\ UNCHANGED lastMark
                       /\ Leave(p, pr, FALSE)
        /\ UNCHANGED <<usable, cstate, pop3cfg, conn, popClient, popConnected, popLogins,
                       popCount, smtpSent, calls>>

\* await this.client.list() settles (listMailboxes takes no lock)
ListDone(p, ok) ==
    LET pr == procs[p]
    IN  /\ pr.await = "list"
        /\ ok => usable
        /\ Set(p, IF ok THEN OnReturn(pr, usable, cstate)
                  ELSE OnThrow(pr, RawErr(pr.pc), usable, cstate))
        /\ UNCHANGED <<usable, cstate, lockOwner, mbox, uidNext, pop3cfg, conn, popClient,
                       popConnected, popLogins, popCount, smtpSent, lastMark, calls>>

\* await this.client.logout() settles; disconnect swallows a failure
LogoutDone(p, ok) ==
    LET pr == procs[p]
    IN  /\ pr.await = "logout"
        /\ IF ok THEN usable' = FALSE /\ cstate' = "LOGOUT"
           ELSE UNCHANGED <<usable, cstate>>
        /\ Set(p, DoneOk(IF ok THEN pr ELSE [pr EXCEPT !.fails = @ + 1]))
        /\ UNCHANGED <<lockOwner, mbox, uidNext, pop3cfg, conn, popClient, popConnected,
                       popLogins, popCount, smtpSent, lastMark, calls>>

\* await this.transporter.sendMail(mailOptions) settles
SmtpDone(p, ok) ==
    LET pr == procs[p]
    IN  /\ pr.await = "sendMail"
        /\ smtpSent' = IF ok THEN smtpSent + 1 ELSE smtpSent
        /\ Set(p, IF ok THEN OnReturn(pr, usable, cstate)
                  ELSE OnThrow(pr, RawErr(pr.pc), usable, cstate))
        /\ UNCHANGED <<usable, cstate, lockOwner, mbox, uidNext, pop3cfg, conn, popClient,
                       popConnected, popLogins, popCount, lastMark, calls>>

\* the server answers the login of POP3 client c (or the connection fails).
\* Client 1 is the constructor's, whose promise is only logged on failure;
\* client p + 1 is awaited by caller p inside the executor of its promise, so a
\* failure there leaves that promise pending.
ConnectedAfterLoginAlways(status, connected) == TRUE
ConnectedAfterLogin(status, connected) == IF status THEN TRUE ELSE connected

PopLoginDone(c, ok) ==
    /\ c \in popLogins
    /\ popLogins' = popLogins \ {c}
    /\ popConnected' = ConnectedAfterLogin(ok, popConnected)
    /\ IF c = 1
       THEN UNCHANGED procs
       ELSE LET p == c - 1
                pr == procs[p]
            IN  Set(p, IF ok
                       THEN PopSend(pr, usable)
                       ELSE [pr EXCEPT !.await = "never", !.fails = @ + 1])
    /\ UNCHANGED <<usable, cstate, lockOwner, mbox, uidNext, pop3cfg, conn, popClient,
                   popCount, smtpSent, lastMark, calls>>

\* onList: for (let i = 0; i < msgcount; i++) numbers.push(i + 1)
PopListNumbersFromZero(msgcount) == [k \in 1..msgcount |-> k - 1]
PopListNumbers(msgcount) == [k \in 1..msgcount |-> k]

\* the command a POP3 connection answers next: the one sent first
PopHead(p) ==
    /\ p \in PopWaiting
    /\ \A q \in PopWaiting :
          procs[q].client = procs[p].client => procs[p].ticket <= procs[q].ticket

\* the calls whose listener the 'retr' / 'list' event of the reply to p's
\* command reaches: client.on('retr', onRetr) / client.on('list', onList)
HeardAnyKind(p) == {q \in PopWaiting : procs[q].client = procs[p].client}
Heard(p) ==
    {q \in Procs : procs[q].await = procs[p].await /\ procs[q].client = procs[p].client}

\* onRetr / onList of one call, run with the reply to the command of call p
PopSettle(pr, ok, p) ==
    LET q == [pr EXCEPT !.out.replyOf = p]
    IN  IF ~ok THEN PopReject(q)
        ELSE IF pr.await = "retr"
             THEN OnReturn([q EXCEPT !.out.found = TRUE], usable, cstate)
             ELSE OnReturn([q EXCEPT !.out.uids = PopListNumbers(popCount)],
                           usable, cstate)

\* the server answers the RETR or LIST of call p
PopCmdDone(p, ok) ==
    /\ PopHead(p)
    /\ procs' = [q \in Procs |->
                   IF q \in Heard(p) THEN PopSettle(procs[q], ok, p) ELSE procs[q]]
    /\ UNCHANGED <<usable, cstate, lockOwner, mbox, uidNext, pop3cfg, conn, popClient,
                   popConnected, popLogins, popCount, smtpSent, lastMark, calls>>

\* getAttachment: the stream that downloadAttachment returned ends or fails
StreamDone(p, ok) ==
    LET pr == procs[p]
    IN  /\ pr.await = "read"
        /\ ok => usable
        /\ Set(p, IF ok THEN DoneOk(pr)
                  ELSE DoneErr([pr EXCEPT !.fails = @ + 1], RawErr(pr.pc)))
        /\ UNCHANGED <<usable, cstate, lockOwner, mbox, uidNext, pop3cfg, conn, popClient,
                       popConnected, popLogins, popCount, smtpSent, lastMark, calls>>

\* the IMAP connection is lost
Drop ==
    /\ usable
    /\ usable' = FALSE
    /\ cstate' = "LOGOUT"
    /\ UNCHANGED <<lockOwner, mbox, uidNext, pop3cfg, conn, popClient, popConnected,
                   popLogins, popCount, smtpSent, lastMark, procs, calls>>

Next ==
    \/ \E p \in Procs, c \in MainCalls : Call(p, c)
    \/ \E p \in Procs : Retire(p)
    \/ \E p \in Procs, ok \in BOOLEAN : ConnectDone(p, ok)
    \/ \E p \in Procs, ok \in BOOLEAN : LockDone(p, ok)
    \/ \E p \in Procs, ok \in BOOLEAN : CmdDone(p, ok)
    \/ \E p \in Procs, ok \in BOOLEAN : ListDone(p, ok)
    \/ \E p \in Procs, ok \in BOOLEAN : LogoutDone(p, ok)
    \/ \E p \in Procs, ok \in BOOLEAN : SmtpDone(p, ok)
    \/ Drop

Spec == Init /\ [][Next]_vars

NextPop ==
    \/ \E p \in Procs, c \in PopCalls : Call(p, c)
    \/ \E p \in Procs : Retire(p)
    \/ \E p \in Procs, ok \in BOOLEAN : ConnectDone(p, ok)
    \/ \E p \in Procs, ok \in BOOLEAN : LockDone(p, ok)
    \/ \E p \in Procs, ok \in BOOLEAN : CmdDone(p, ok)
    \/ \E p \in Procs, ok \in BOOLEAN : SmtpDone(p, ok)
    \/ \E p \in Procs, ok \in BOOLEAN : PopCmdDone(p, ok)
    \/ \E c \in 1..3, ok \in BOOLEAN : PopLoginDone(c, ok)

SpecPop == InitPop /\ [][NextPop]_vars

\* the POP3 server answers every login and every command that awaits a reply,
\* with success or with failure
SpecPopLive ==
    /\ InitPop
    /\ [][NextPop]_vars
    /\ WF_vars(\E c \in 1..3, ok \in BOOLEAN : PopLoginDone(c, ok))
    /\ WF_vars(\E p \in Procs, ok \in BOOLEAN : PopCmdDone(p, ok))

NextList ==
    \/ \E c \in ListCalls : Call(1, c)
    \/ Retire(1)
    \/ \E ok \in BOOLEAN : ConnectDone(1, ok)
    \/ \E ok \in BOOLEAN : LockDone(1, ok)
    \/ \E ok \in BOOLEAN : CmdDone(1, ok)
    \/ \E ok \in BOOLEAN : PopCmdDone(1, ok)
    \/ \E c \in 1..2, ok \in BOOLEAN : PopLoginDone(c, ok)

SpecList == InitList /\ [][NextList]_vars

NextLabels ==
    \/ \E c \in LabelCalls : Call(1, c)
    \/ Retire(1)
    \/ \E ok \in BOOLEAN : ConnectDone(1, ok)
    \/ \E ok \in BOOLEAN : LockDone(1, ok)
    \/ \E ok \in BOOLEAN : CmdDone(1, ok)
    \/ Drop

SpecLabels == Init /\ [][NextLabels]_vars

NextBatch ==
    \/ \E c \in BatchCalls : Call(1, c)
    \/ Retire(1)
    \/ \E ok \in BOOLEAN : ConnectDone(1, ok)
    \/ \E ok \in BOOLEAN : LockDone(1, ok)
    \/ \E ok \in BOOLEAN : CmdDone(1, ok)
    \/ Drop

SpecBatch == Init /\ [][NextBatch]_vars

NextDraft ==
    \/ \E p \in Procs, c \in DraftCalls : Call(p, c)
    \/ \E p \in Procs : Retire(p)
    \/ \E p \in Procs, ok \in BOOLEAN : ConnectDone(p, ok)
    \/ \E p \in Procs, ok \in BOOLEAN : LockDone(p, ok)
    \/ \E p \in Procs, ok \in BOOLEAN : CmdDone(p, ok)
    \/ \E p \in Procs, ok \in BOOLEAN : SmtpDone(p, ok)
    \/ \E p \in Procs, ok \in BOOLEAN : StreamDone(p, ok)

SpecDraft == Init /\ [][NextDraft]_vars

\* Pop3Service.quit exists on a manager that has a Pop3Service
NextClose ==
    \/ \E p \in Procs, c \in CloseCalls : (c.op = "popQuit" => pop3cfg) /\ Call(p, c)
    \/ \E p \in Procs : Retire(p)
    \/ \E p \in Procs, ok \in BOOLEAN : ConnectDone(p, ok)
    \/ \E p \in Procs, ok \in BOOLEAN : LockDone(p, ok)
    \/ \E p \in Procs, ok \in BOOLEAN : CmdDone(p, ok)
    \/ \E p \in Procs, ok \in BOOLEAN : LogoutDone(p, ok)
    \/ \E p \in Procs, ok \in BOOLEAN : PopCmdDone(p, ok)
    \/ \E c \in 1..3, ok \in BOOLEAN : PopLoginDone(c, ok)

SpecClose == InitPop /\ [][NextClose]_vars

\* paging through INBOX from the first list call on, UIDs equal to the
\* sequence numbers
PagingCalls == {Listing("INBOX", NoTok, n) : n \in 1..MaxPage}

InitPaging == \E n \in 0..(MaxMsgs + 1) : InitWith(n, 0, {FALSE})

NextPaging ==
    \/ \E c \in PagingCalls : Call(1, c)
    \/ Follow(1)
    \/ Retire(1)
    \/ \E ok \in BOOLEAN : ConnectDone(1, ok)
    \/ \E ok \in BOOLEAN : LockDone(1, ok)
    \/ \E ok \in BOOLEAN : CmdDone(1, ok)

SpecPaging == InitPaging /\ [][NextPaging]_vars

-----------------------------------------------------------------------------
(* The connection record: addGenericConnection stores it, connectionToDriver *)
(* builds the manager from it.  A string is a sequence of pieces; the two    *)
(* prefixes the placeholder functions use are pieces of their own.           *)

Pieces == {"a", "b", "encrypted:", "decrypted:"}
Passwords == UNION {[1..n -> Pieces] : n \in 1..MaxPwd}

\* encryptPassword: return `encrypted:${plainTextPassword}`
encryptPassword(plainTextPassword) == <<"encrypted:">> \o plainTextPassword

\* decryptPassword: if (encryptedPassword.startsWith("decrypted:")) return
\* encryptedPassword.replace("decrypted:", ""); return encryptedPassword
decryptPassword(encryptedPassword) ==
    IF Len(encryptedPassword) > 0 /\ encryptedPassword[1] = "decrypted:"
    THEN Tail(encryptedPassword)
    ELSE encryptedPassword

\* input.pop3Tls || null: false and an absent value both become null
TlsOrNull(tls) == IF tls = "true" THEN "true" ELSE "none"

\* the form values of addGenericConnection (genericConnectionInputSchema)
Inputs ==
    [password : Passwords, pop3Host : {"none", "pop.example.org"},
     pop3Port : {0, 995}, pop3Tls : {"none", "false", "true"}]

\* addGenericConnection: the row inserted into connection
Stored(input) ==
    [encryptedPassword |-> encryptPassword(input.password),
     pop3Host |-> input.pop3Host,
     pop3Port |-> input.pop3Port,
     pop3Tls |-> TlsOrNull(input.pop3Tls)]

\* connectionToDriver: authConfig has email, passwordPlainText, name, imap and
\* smtp, and no pop3
DriverConfig(stored) ==
    [passwordPlainText |-> decryptPassword(stored.encryptedPassword),
     pop3 |-> NoPop3]

AddGenericConnection(input) ==
    /\ conn.stage = "none"
    /\ conn' = [conn EXCEPT !.stage = "stored", !.input = input,
                            !.stored = Stored(input)]
    /\ UNCHANGED <<usable, cstate, lockOwner, mbox, uidNext, pop3cfg, popClient,
                   popConnected, popLogins, popCount, smtpSent, lastMark, procs,
                   calls>>

\* connectionToDriver, with the GenericMailManager constructor that
\* createDriver runs: if (this.config.auth.pop3) { new Pop3Service(...);
\* this.pop3Service.connect() }
ConnectionToDriver ==
    LET config == DriverConfig(conn.stored)
    IN  /\ conn.stage = "stored"
        /\ conn' = [conn EXCEPT !.stage = "driver", !.config = config]
        /\ pop3cfg' = (config.pop3 # NoPop3)
        /\ popClient' = IF config.pop3 # NoPop3 THEN 1 ELSE 0
        /\ popLogins' = IF config.pop3 # NoPop3 THEN {1} ELSE {}
        /\ UNCHANGED <<usable, cstate, lockOwner, mbox, uidNext, popConnected,
                       popCount, smtpSent, lastMark, procs, calls>>

NextConn ==
    \/ \E input \in Inputs : AddGenericConnection(input)
    \/ ConnectionToDriver

SpecConn == Init /\ [][NextConn]_vars

\* get on an INBOX whose first message has any body structure
InitMime ==
    \E t \in Trees : InitState(<<[Msg(1, 1, {}) EXCEPT !.parts = t]>>, 1, 0, {FALSE})

NextMime ==
    \/ Call(1, One("get", 1))
    \/ Retire(1)
    \/ \E ok \in BOOLEAN : ConnectDone(1, ok)
    \/ \E ok \in BOOLEAN : LockDone(1, ok)
    \/ \E ok \in BOOLEAN : CmdDone(1, ok)

SpecMime == InitMime /\ [][NextMime]_vars

-----------------------------------------------------------------------------
(* Properties *)

Count(tr, e, i) == Cardinality({k \in DOMAIN tr : tr[k].e = e /\ tr[k].i = i})
Has(tr, e) == \E k \in DOMAIN tr : tr[k].e = e
Done(pr) == pr.st \in {"ok", "err"}
\* the i-th service call of the manager call has ended
Ended(pr, i) == i < pr.pc \/ (i = pr.pc /\ Done(pr))
\* this step ends the manager call of p
Completes(p) == procs[p].st = "run" /\ Done(procs'[p])

ImapCmds == {"lock", "list"} \cup LockedCmds
ImapEvents == ImapCmds \cup {"connect", "connected", "locked", "release", "logout"}
PopEvents == {"popConnect", "retr", "popList"}

Holders ==
    {p \in Procs : procs[p].st = "run" /\ procs[p].lock /\ procs[p].await \in LockedCmds}

ConnectsIn(pr) == Cardinality({k \in DOMAIN pr.trace : pr.trace[k].e = "connect"})

\* C3: no handshake is started while the session is usable: a step in which a
\* caller starts client.connect() is taken from a state where the session is
\* not usable, so connect() on a usable session is a no-op.
C3_NoLoginWhileUsable ==
    [][\A p \in Procs : ConnectsIn(procs'[p]) > ConnectsIn(procs[p]) => ~usable]_vars

\* connect() returned on a usable session without having started a handshake
C3_Witness ==
    \E p \in Procs :
        /\ procs[p].op = "imapConnect"
        /\ procs[p].st = "ok"
        /\ ConnectsIn(procs[p]) = 0
        /\ usable

C6_MoveErrorReported ==
    \A p \in Procs :
        (procs[p].op = "delete" /\ procs[p].st = "err") =>
            (procs[p].err.origin = 1 \/ procs[p].err.cause = 1)

PageOk(pr) ==
    LET total == Len(mbox[pr.folder])
        n == Len(pr.out.threads)
    IN  IF total >= pr.maxResults
        THEN n = pr.maxResults /\ pr.out.token # NoTok
        ELSE n = total /\ pr.out.token = NoTok

C9_TokenWhenPageFull ==
    \A p \in Procs :
        LET pr == procs[p]
            uids == pr.out.uids
            page == IF pr.maxResults # 0 THEN pr.maxResults ELSE DefaultLast
        IN  (pr.op = "list" /\ pr.st = "ok" /\ ~pop3cfg) =>
               IF Len(uids) = page
               THEN pr.out.token = StrTok(uids[Len(uids)] + 1)
               ELSE pr.out.token = NoTok

\* C10: with POP3 configured, get and list issue no IMAP command and succeed
\* only through a POP3 command; markAsRead, markAsUnread, delete, modifyLabels
\* and sendDraft never issue a POP3 command.
C10_ProtocolSelection ==
    \A p \in Procs :
        LET pr == procs[p]
            tr == pr.trace
        IN  /\ (pop3cfg /\ pr.op \in {"get", "list"}) =>
                 /\ \A k \in DOMAIN tr : tr[k].e \notin ImapEvents
                 /\ pr.st = "ok" => (Has(tr, "retr") \/ Has(tr, "popList"))
            /\ pr.op \in {"markAsRead", "markAsUnread", "delete", "modifyLabels", "sendDraft"}
                 => \A k \in DOMAIN tr : tr[k].e \notin PopEvents

\* get served by POP3
C10_Witness ==
    \E p \in Procs :
        /\ pop3cfg
        /\ procs[p].op = "get"
        /\ procs[p].st = "ok"
        /\ Has(procs[p].trace, "retr")

\* C11: on a manager served by POP3 whose maildrop holds N messages, list()
\* returns exactly N thread stubs with the ids "1" .. "N" in ascending order.
C11_Pop3ListIds ==
    \A p \in Procs :
        (pop3cfg /\ procs[p].op = "list" /\ procs[p].st = "ok") =>
            procs[p].out.threads = [k \in 1..popCount |-> StrTok(k)]

\* list() served by POP3 on a maildrop of three messages
C11_Witness ==
    \E p \in Procs :
        /\ pop3cfg
        /\ procs[p].op = "list"
        /\ procs[p].st = "ok"
        /\ popCount = 3
        /\ Len(procs[p].out.threads) = 3
        /\ Has(procs[p].trace, "popList")

\* C12: on a manager served by POP3, get(id) of an existing message returns a
\* message whose read is true and whose labels are empty.
C12_Pop3ReadTrue ==
    \A p \in Procs :
        (pop3cfg /\ procs[p].op = "get" /\ procs[p].st = "ok") =>
            (procs[p].out.read /\ procs[p].out.labels = {})

StarOnly(pr) == pr.op = "modifyLabels" /\ pr.add = {"STARRED"} /\ pr.rm = {}
IdSet(pr) == {pr.ids[k] : k \in DOMAIN pr.ids}

\* C13: every step of modifyLabels(ids, {addLabels: ['STARRED'], removeLabels:
\* []}) leaves every mailbox other than INBOX and every UID counter unchanged,
\* moves no message, and changes a message of INBOX at most by adding \Starred
\* to one whose UID is in ids; when the call returns, every message of INBOX
\* whose UID is in ids carries \Starred.
C13_StarredOnly ==
    [][\A p \in Procs :
         (StarOnly(procs[p]) /\ procs[p].st = "run" /\ procs'[p] # procs[p]) =>
            /\ uidNext' = uidNext
            /\ \A f \in Folders \ {"INBOX"} : mbox'[f] = mbox[f]
            /\ Len(mbox'["INBOX"]) = Len(mbox["INBOX"])
            /\ \A k \in DOMAIN mbox["INBOX"] :
                 LET a == mbox["INBOX"][k]
                     b == mbox'["INBOX"][k]
                 IN  /\ b.mid = a.mid
                     /\ b.uid = a.uid
                     /\ \/ b.flags = a.flags
                        \/ b.flags = a.flags \cup {"Starred"} /\ a.uid \in IdSet(procs[p])
            /\ procs'[p].st = "ok" =>
                 \A k \in DOMAIN mbox'["INBOX"] :
                     mbox'["INBOX"][k].uid \in IdSet(procs[p])
                        => "Starred" \in mbox'["INBOX"][k].flags]_vars

\* modifyLabels([2, 1], STARRED) returned and both messages carry \Starred
C13_Witness ==
    \E p \in Procs :
        /\ StarOnly(procs[p])
        /\ procs[p].st = "ok"
        /\ procs[p].ids = <<2, 1>>
        /\ \A id \in {1, 2} :
             /\ Find("INBOX", id) # 0
             /\ "Starred" \in mbox["INBOX"][Find("INBOX", id)].flags

MovesIn(pr) == Cardinality({k \in DOMAIN pr.trace : pr.trace[k].e = "messageMove"})
\* the folder modifyLabels has to move a message to, "none" for no move
MoveTarget(pr) ==
    IF "TRASH" \in pr.add THEN "Trash"
    ELSE IF "INBOX" \in pr.rm THEN "Archive"
    ELSE "none"

\* C14: modifyLabels issues one move per id when TRASH is in addLabels (to
\* Trash) or INBOX is in removeLabels and TRASH is not in addLabels (to
\* Archive) and no move otherwise: it never issues more moves than that, a call
\* that returns has issued exactly that many, and the n-th move takes the
\* message with the n-th id out of INBOX into the folder named above and
\* leaves the other folder alone.
C14_MoveExactlyWhen ==
    [][\A p \in Procs :
         LET pr == procs[p]
             nx == procs'[p]
             most == IF MoveTarget(nx) = "none" THEN 0 ELSE Len(nx.ids)
         IN  nx.op = "modifyLabels" =>
                /\ MovesIn(nx) <= most
                /\ nx.st = "ok" => MovesIn(nx) = most
                /\ (pr.op = "modifyLabels" /\ pr.await = "messageMove" /\ mbox' # mbox) =>
                     LET t == MoveTarget(pr)
                         id == pr.ids[MovesIn(pr)]
                     IN  /\ t # "none"
                         /\ Len(mbox'[t]) = Len(mbox[t]) + 1
                         /\ \A f \in {"Trash", "Archive", "Drafts"} \ {t} : mbox'[f] = mbox[f]
                         /\ Find("INBOX", id) # 0
                         /\ FindIn(mbox'["INBOX"], id) = 0
                         /\ Len(mbox'["INBOX"]) = Len(mbox["INBOX"]) - 1
                         /\ mbox'[t][Len(mbox'[t])].mid = mbox["INBOX"][Find("INBOX", id)].mid]_vars

\* a call that removed INBOX without adding TRASH returned and a message is in
\* Archive
C14_Witness ==
    \E p \in Procs :
        /\ procs[p].op = "modifyLabels"
        /\ procs[p].st = "ok"
        /\ "INBOX" \in procs[p].rm
        /\ "TRASH" \notin procs[p].add
        /\ MovesIn(procs[p]) = Len(procs[p].ids)
        /\ Len(mbox["Archive"]) > 0

\* the mailboxes a call has requested the lock of
LockedBoxes(pr) ==
    {Plan(pr)[pr.trace[k].i].mb : k \in {j \in DOMAIN pr.trace : pr.trace[j].e = "lock"}}

\* C15 (as amended): get, markAsRead, markAsUnread, delete, getAttachment and
\* modifyLabels lock no mailbox but INBOX; getDraft and sendDraft lock no
\* mailbox but Drafts.
C15_SourceMailbox ==
    \A p \in Procs :
        /\ procs[p].op \in {"get", "markAsRead", "markAsUnread", "delete", "getAttachment",
                            "modifyLabels"} => LockedBoxes(procs[p]) \subseteq {"INBOX"}
        /\ procs[p].op \in {"getDraft", "sendDraft"} =>
               LockedBoxes(procs[p]) \subseteq {"Drafts"}

\* C15 as stated: the eight operations lock no mailbox but INBOX.
C15_Original ==
    \A p \in Procs :
        procs[p].op \in {"get", "markAsRead", "markAsUnread", "delete", "getAttachment",
                        "modifyLabels", "getDraft", "sendDraft"}
            => LockedBoxes(procs[p]) \subseteq {"INBOX"}

\* delete holds the lock of INBOX while getDraft has requested that of Drafts
C15_Witness ==
    \E p, q \in Procs :
        /\ procs[p].op = "delete" /\ LockedBoxes(procs[p]) = {"INBOX"}
        /\ p \in Holders
        /\ procs[q].op = "getDraft" /\ LockedBoxes(procs[q]) = {"Drafts"}

SendDrafts(pr) == pr.op = "sendDraft"

\* C16: a sendDraft call issues its first IMAP lock request or command in the
\* step in which its SMTP send succeeded, and none before; a call whose send
\* failed ends with no IMAP event at all; a step of the call changes the
\* mailboxes at most by adding \Deleted to the message of Drafts with the given
\* id, so the draft stays in Drafts.
C16_SendThenFlag ==
    [][\A p \in Procs :
         LET pr == procs[p]
             nx == procs'[p]
             imapIn(q) == \E k \in DOMAIN q.trace : q.trace[k].e \in ImapEvents
         IN  (SendDrafts(pr) /\ SendDrafts(nx) /\ pr.st = "run" /\ nx # pr) =>
                /\ (~imapIn(pr) /\ (imapIn(nx) \/ nx.pc = 2)) =>
                      (pr.await = "sendMail" /\ smtpSent' = smtpSent + 1)
                /\ (pr.await = "sendMail" /\ smtpSent' = smtpSent) =>
                      (nx.st = "err" /\ ~imapIn(nx) /\ mbox' = mbox)
                /\ uidNext' = uidNext
                /\ \A f \in Folders \ {"Drafts"} : mbox'[f] = mbox[f]
                /\ Len(mbox'["Drafts"]) = Len(mbox["Drafts"])
                /\ \A k \in DOMAIN mbox["Drafts"] :
                     LET a == mbox["Drafts"][k]
                         b == mbox'["Drafts"][k]
                     IN  /\ b.mid = a.mid /\ b.uid = a.uid
                         /\ \/ b.flags = a.flags
                            \/ /\ b.flags = a.flags \cup {"Deleted"}
                               /\ a.uid = pr.ids[1]
                               /\ pr.await = "messageFlagsAdd"
                /\ nx.st = "ok" =>
                     \A k \in DOMAIN mbox'["Drafts"] :
                        mbox'["Drafts"][k].uid = pr.ids[1]
                           => "Deleted" \in mbox'["Drafts"][k].flags]_vars

\* sendDraft returned: one message sent and the draft, still in Drafts, flagged
C16_Witness ==
    \E p \in Procs :
        /\ procs[p].op = "sendDraft"
        /\ procs[p].st = "ok"
        /\ smtpSent >= 1
        /\ Find("Drafts", procs[p].ids[1]) # 0
        /\ "Deleted" \in mbox["Drafts"][Find("Drafts", procs[p].ids[1])].flags

\* C18: a create call makes at most one send attempt; when the attempt fails
\* the call ends in the same step with the transport's own error, unwrapped,
\* and no message is counted as sent; when it succeeds exactly one message is
\* sent and the call returns.
C18_SendOnce ==
    [][\A p \in Procs :
         LET pr == procs[p]
             nx == procs'[p]
         IN  /\ nx.op = "create" => Count(nx.trace, "sendMail", 1) <= 1
             /\ (pr.op = "create" /\ pr.await = "sendMail" /\ nx # pr) =>
                  /\ Done(nx)
                  /\ Count(nx.trace, "sendMail", 1) = 1
                  /\ IF smtpSent' = smtpSent
                     THEN nx.st = "err" /\ nx.err = RawErr(1)
                     ELSE nx.st = "ok" /\ smtpSent' = smtpSent + 1]_vars

\* create failed with the transport's error after one attempt
C18_Witness ==
    \E p \in Procs :
        /\ procs[p].op = "create"
        /\ procs[p].st = "err"
        /\ procs[p].err = RawErr(1)
        /\ Count(procs[p].trace, "sendMail", 1) = 1

PopCmds == {"popConnect", "retr", "popList"}
SmtpCmds == {"sendMail"}

\* C17: a manager call in which a command failed has ended in failure (or is
\* delete running the fallback it makes for its failed move); a call that
\* returned successfully had no failed command; and no call issues the same
\* command of the same service call twice.
C17_FailureSurfaces ==
    \A p \in Procs :
        LET pr == procs[p]
        IN  /\ pr.st = "ok" => pr.fails = 0
            /\ pr.fails > 0 =>
                 \/ pr.st = "err"
                 \/ pr.op = "delete" /\ pr.pc = 2 /\ pr.fails = 1
            /\ \A i \in 1..Len(Plan(pr)) :
                 \A e \in ImapCmds \cup PopCmds \cup SmtpCmds \cup {"connect"} :
                     Count(pr.trace, e, i) <= 1

C20_NoConnectionBeforeUse ==
    calls = 0 =>
       /\ ~usable
       /\ cstate = "NOT_AUTHENTICATED"
       /\ popClient = 0
       /\ popLogins = {}

\* C21: the step that calls createDraft ends the call at once with success and
\* a non-null id, records no IMAP, SMTP or POP3 event for it, and leaves every
\* mailbox, every UID counter, the sessions and the count of sent messages as
\* they were.
C21_CreateDraftIsStub ==
    [][\A p \in Procs :
         (procs[p].st = "idle" /\ procs'[p].op = "createDraft") =>
            /\ procs'[p].st = "ok"
            /\ procs'[p].out.success
            /\ procs'[p].out.id # ""
            /\ \A k \in DOMAIN procs'[p].trace : procs'[p].trace[k].e = "return"
            /\ mbox' = mbox
            /\ uidNext' = uidNext
            /\ smtpSent' = smtpSent
            /\ <<usable, cstate, lockOwner>> ' = <<usable, cstate, lockOwner>>
            /\ <<popClient, popConnected, popLogins>> ' = <<popClient, popConnected, popLogins>>]_vars

\* createDraft returned while Drafts holds what it held at the start
C21_Witness ==
    \E p \in Procs :
        /\ procs[p].op = "createDraft"
        /\ procs[p].st = "ok"
        /\ procs[p].out.id = "mockDraft"
        /\ Len(mbox["Drafts"]) = 1

\* the body structure of the message a finished get fetched
Fetched(pr) == mbox["INBOX"][Find("INBOX", pr.ids[1])].parts
GotMessage(pr) == pr.op = "get" /\ pr.st = "ok" /\ Find("INBOX", pr.ids[1]) # 0
\* the first part, in depth-first order, that is of the kind, 0 when none is
FirstPart(parts, kind) ==
    LET hits == {i \in 1..Len(parts) : parts[i] = kind}
    IN  IF hits = {} THEN 0 ELSE CHOOSE i \in hits : \A j \in hits : i <= j
HowMany(parts, kinds) == Cardinality({i \in 1..Len(parts) : parts[i] \in kinds})

\* C22: a fetched message has as its plain-text body the content of the first
\* text/plain part without a disposition, in depth-first order, and as its
\* HTML body the content of the first such text/html part (no body when there
\* is no such part).
C22_FirstBodyPartWins ==
    \A p \in Procs :
        GotMessage(procs[p]) =>
            /\ procs[p].out.textBody = FirstPart(Fetched(procs[p]), PlainBody)
            /\ procs[p].out.htmlBody = FirstPart(Fetched(procs[p]), HtmlBody)

\* C23: the attachment descriptors of a fetched message are exactly the parts
\* of its body structure with disposition attachment or with a filename and a
\* type other than text/plain and text/html, one descriptor per part; no part
\* is both a body and an attachment; no download of an attachment is awaited.
C23_AttachmentsExact ==
    \A p \in Procs :
        /\ GotMessage(procs[p]) =>
              LET parts == Fetched(procs[p])
                  atts == procs[p].out.atts
                  ids == {atts[k].partID : k \in DOMAIN atts}
              IN  /\ ids = {i \in 1..Len(parts) : IsAttachment(parts[i])}
                  /\ Len(atts) = Cardinality(ids)
                  /\ procs[p].out.textBody \notin ids
                  /\ procs[p].out.htmlBody \notin ids
        /\ (procs[p].op = "get" /\ procs[p].await = "download") =>
              ~IsAttachment(mbox["INBOX"][Find("INBOX", procs[p].ids[1])].parts[procs[p].part])

\* a multipart message with one text/plain part, one text/html part and one
\* PDF attachment part
PlainHtmlPdf(parts) ==
    /\ parts[1] = Multipart
    /\ HowMany(parts, {PlainBody}) = 1
    /\ HowMany(parts, {HtmlBody}) = 1
    /\ HowMany(parts, {PdfAttachment, PdfNamed}) = 1
    /\ HowMany(parts, {TextAttachment, Rfc822Attachment}) = 0

\* C24: get of a multipart message with one text/plain part, one text/html
\* part and one PDF attachment part returns bodyPlain and bodyHtml with the
\* content of those parts and exactly one attachment descriptor, of
\* contentType application/pdf.
C24_PlainHtmlPdfMessage ==
    \A p \in Procs :
        (GotMessage(procs[p]) /\ PlainHtmlPdf(Fetched(procs[p]))) =>
            /\ procs[p].out.bodyPlain = Content(FirstPart(Fetched(procs[p]), PlainBody))
            /\ procs[p].out.bodyPlain # 0
            /\ procs[p].out.bodyHtml = Content(FirstPart(Fetched(procs[p]), HtmlBody))
            /\ procs[p].out.bodyHtml # 0
            /\ Len(procs[p].out.attachments) = 1
            /\ procs[p].out.attachments[1].contentType = "application/pdf"

\* get returned such a message, its PDF part listed after both bodies
C24_Witness ==
    \E p \in Procs :
        /\ GotMessage(procs[p])
        /\ PlainHtmlPdf(Fetched(procs[p]))
        /\ Fetched(procs[p])[4] = PdfAttachment
        /\ Count(procs[p].trace, "download", 1) = 2

\* C25: when fetchOne succeeds for a get and the mailbox holds no message with
\* the uid, the same step releases the mailbox lock (fetchMessage returns null)
\* and ends get with the 404 error; no message is returned.
C25_AbsentMessageIs404 ==
    [][\A p \in Procs :
         (/\ procs[p].op = "get"
          /\ procs[p].await = "fetchOne"
          /\ Find("INBOX", procs[p].ids[1]) = 0
          /\ procs'[p] # procs[p]
          /\ procs'[p].fails = procs[p].fails) =>
            /\ lockOwner = p
            /\ lockOwner' = 0
            /\ Count(procs'[p].trace, "release", 1) = 1
            /\ procs'[p].st = "err"
            /\ procs'[p].err = StdErr(404, 0)
            /\ ~procs'[p].out.found]_vars

\* get ended with 404 after its fetchOne succeeded on a mailbox without the uid
C25_Witness ==
    \E p \in Procs :
        /\ procs[p].op = "get"
        /\ procs[p].st = "err"
        /\ procs[p].err = StdErr(404, 0)
        /\ procs[p].fails = 0
        /\ Has(procs[p].trace, "fetchOne")
        /\ Has(procs[p].trace, "release")
        /\ Find("INBOX", procs[p].ids[1]) = 0

\* C26: disconnect and quit never end with an error.  The step in which the
\* logout of a disconnect settles, failed or not, ends disconnect normally; a
\* disconnect called on a session that is already logged out ends at once
\* without a logout; quit ends at once and drops the client.
C26_ClosePathsComplete ==
    [][\A p \in Procs :
         /\ procs'[p].op \in {"imapDisconnect", "popQuit"} => procs'[p].st # "err"
         /\ (procs[p].op = "imapDisconnect" /\ procs[p].await = "logout"
             /\ procs'[p] # procs[p]) => procs'[p].st = "ok"
         /\ (procs[p].st = "idle" /\ procs'[p].op = "imapDisconnect"
             /\ ~usable /\ cstate = "LOGOUT") =>
                /\ procs'[p].st = "ok"
                /\ ~Has(procs'[p].trace, "logout")
         /\ (procs[p].st = "idle" /\ procs'[p].op = "imapDisconnect"
             /\ ~(~usable /\ cstate = "LOGOUT")) => procs'[p].await = "logout"
         /\ (procs[p].st = "idle" /\ procs'[p].op = "popQuit") =>
                /\ procs'[p].st = "ok"
                /\ popClient' = 0]_vars

\* a disconnect whose logout failed has completed normally, and a quit has
\* completed too
C26_Witness ==
    \E p, q \in Procs :
        /\ procs[p].op = "imapDisconnect"
        /\ procs[p].st = "ok"
        /\ procs[p].fails = 1
        /\ Has(procs[p].trace, "logout")
        /\ procs[q].op = "popQuit"
        /\ procs[q].st = "ok"

\* C27: a call that awaits a command of a mailbox-scoped operation, or the
\* bytes of the stream that downloadAttachment returned, holds the mailbox
\* lock.
C27_ExchangeInsideLock ==
    \A p \in Procs :
        procs[p].await \in LockedCmds \cup {"read"} => lockOwner = p

\* the call is inside Pop3Service.fetchMessage or Pop3Service.listMessages
InPop3Call(pr) == pr.st = "run" /\ pr.pc > 0 /\ Cur(pr).svc \in PopSvcs

\* C28: a call that is inside POP3 fetchMessage or listMessages eventually
\* ends, returning or failing, when the server answers every login and every
\* command.
C28_Pop3CallsSettle ==
    \A p \in Procs : InPop3Call(procs[p]) ~> Done(procs[p])

\* C29: at most one POP3 login is in progress at a time, and the client that
\* the constructor made is not replaced while its login is in progress.
C29_OnePop3Login ==
    /\ Cardinality(popLogins) <= 1
    /\ 1 \in popLogins => popClient = 1

\* C30: a POP3 call that ended on a reply of the server ended on the reply to
\* its own command.
C30_Original ==
    \A p \in Procs : procs[p].out.replyOf \in {0, p}

\* no other call awaits a reply of the same kind on the client that call p
\* awaits one on
AloneOnClient(p) ==
    \A q \in Procs \ {p} :
        ~(procs[q].await = procs[p].await /\ procs[q].client = procs[p].client)

\* C30 (amended): a POP3 call that awaits its reply as the only call of its
\* kind on its client ends only on the reply to its own command; a reply that
\* ends a call
\* is the reply to the command sent first on that client, and it ends every
\* call that awaits a reply of the same kind on that client.
C30_OwnReplyWhenAlone ==
    [][\A p \in Procs :
         (p \in PopWaiting /\ procs'[p] # procs[p]) =>
            /\ AloneOnClient(p) => procs'[p].out.replyOf = p
            /\ \E h \in PopWaiting :
                 /\ PopHead(h)
                 /\ procs[h].client = procs[p].client
                 /\ procs[h].await = procs[p].await
                 /\ procs'[p].out.replyOf = h
                 /\ procs'[h].out.replyOf = h]_vars

\* a get ended on the reply to its own RETR while a list awaits the reply to
\* its LIST on the same client
C30_Witness ==
    \E p \in Procs : \E q \in Procs \ {p} :
        /\ procs[p].op = "get"
        /\ procs[p].st = "ok"
        /\ procs[p].out.replyOf = p
        /\ procs[q].await = "popList"
        /\ procs[q].client = procs[p].client

\* C31: at most one call awaits client.connect() of the IMAP session at a
\* time.
C31_OneHandshake ==
    Cardinality({p \in Procs : procs[p].await = "connect"}) <= 1

\* C32: whenever the connected flag of the POP3 session is true the session
\* has a client; in particular the flag is false once quit has dropped the
\* client, so that the next call reconnects.
C32_ConnectedHasClient ==
    popConnected => popClient # 0

\* the message that get(id) of the call asks for exists on the server
Present(pr) ==
    IF pop3cfg THEN pr.ids[1] \in 1..popCount ELSE Find("INBOX", pr.ids[1]) # 0

\* C33: a get that ended with the 404 error asked for a message that is absent
\* and had no failed command; a get in which a command failed ended with
\* another error than 404.
C33_NotFoundOnlyWhenAbsent ==
    \A p \in Procs :
        (procs[p].op = "get" /\ procs[p].st = "err" /\ procs[p].err = StdErr(404, 0)) =>
            /\ ~Present(procs[p])
            /\ procs[p].fails = 0

\* the sequence numbers of the messages a finished list returned
SeqsOf(pr) == {FindIn(mbox[pr.folder], pr.out.uids[k]) : k \in DOMAIN pr.out.uids}
\* a list that ImapService.listMessages served, called with a number or with
\* nothing as its start position
ImapListed(pr) ==
    pr.op = "list" /\ pr.st = "ok" /\ ~pop3cfg /\ pr.pageToken.k # "str"
RangeRules(pr) ==
    LET total == Len(mbox[pr.folder])
        start == pr.pageToken.n
        count == pr.maxResults
    IN  /\ Len(pr.out.uids) = Cardinality(SeqsOf(pr))
        /\ (start # 0 /\ count # 0) =>
              /\ SeqsOf(pr) = {n \in 1..total : start <= n /\ n <= start + count - 1}
              /\ ~Has(pr.trace, "status")
        /\ (start = 0 /\ count # 0) =>
              /\ SeqsOf(pr) = Max(1, total - count + 1)..total
              /\ Has(pr.trace, "status")
              /\ total = 0 => ~Has(pr.trace, "fetch")
        /\ count = 0 =>
              /\ SeqsOf(pr) = {n \in 1..total : n <= DefaultLast}
              /\ ~Has(pr.trace, "status")

Visits(pages, uid) ==
    Cardinality({x \in (DOMAIN pages) \X (1..DefaultLast) :
                   x[2] \in DOMAIN pages[x[1]] /\ pages[x[1]][x[2]] = uid})

\* C35: when a caller who followed the tokens from a first list without
\* pageToken gets a page without a token, every message of the mailbox has
\* been returned in exactly one of the pages.
C35_PagingVisitsAll ==
    \A p \in Procs :
        LET pr == procs[p]
        IN  (pr.op = "list" /\ pr.st = "ok" /\ pr.out.token = NoTok) =>
               \A k \in DOMAIN mbox[pr.folder] :
                   Visits(Append(pr.pages, pr.out.uids), mbox[pr.folder][k].uid) = 1

\* C36: a list that was given maxResults returns at most maxResults threads,
\* and a list of the Drafts folder, as listDrafts makes it, returns only UIDs
\* of messages of Drafts, each at most once.
C36_PageBounded ==
    \A p \in Procs :
        LET pr == procs[p]
        IN  (pr.op = "list" /\ pr.st = "ok") =>
               /\ pr.maxResults # 0 => Len(pr.out.threads) <= pr.maxResults
               /\ pr.folder = "Drafts" =>
                     /\ \A k \in DOMAIN pr.out.uids : Find("Drafts", pr.out.uids[k]) # 0
                     /\ Len(pr.out.uids) <= Len(mbox["Drafts"])

BatchOps == {"markAsRead", "markAsUnread", "modifyLabels"}
PosIn(ids, id) == CHOOSE k \in DOMAIN ids : ids[k] = id
\* the change that a service call of a batch operation makes is in place
Applied(c) ==
    LET k == Find(c.mb, c.id)
    IN  CASE c.svc = "setFlags" -> k = 0 \/ c.arg \in mbox[c.mb][k].flags
          [] c.svc = "unsetFlags" -> k = 0 \/ c.arg \notin mbox[c.mb][k].flags
          [] c.svc = "moveMessage" -> k = 0
          [] OTHER -> TRUE

\* C37: a batch operation makes its service calls id by id in the order of
\* ids, each begun once and in plan order; a failed command ends the operation
\* in the same step with the library's error, with the mailboxes as they were
\* before the step, so the changes made for the earlier ids are in place; and
\* an operation that has failed issues nothing more.
C37_BatchStopsAtFailure ==
    [][\A p \in Procs :
         LET pr == procs[p]
             nx == procs'[p]
         IN  nx.op \in BatchOps =>
                /\ \A i, j \in DOMAIN Plan(nx) :
                      i < j => PosIn(nx.ids, Plan(nx)[i].id) <= PosIn(nx.ids, Plan(nx)[j].id)
                /\ \A k \in DOMAIN nx.trace :
                      /\ nx.trace[k].i <= nx.pc
                      /\ k > 1 => nx.trace[k - 1].i <= nx.trace[k].i
                /\ \A i \in 1..nx.pc : Count(nx.trace, "enter", i) = 1
                /\ nx.fails > 0 =>
                      /\ nx.st = "err"
                      /\ nx.fails = 1
                      /\ nx.err = RawErr(nx.pc)
                /\ (pr.st = "run" /\ nx.st = "err") =>
                      /\ mbox' = mbox
                      /\ uidNext' = uidNext
                      /\ \A i \in 1..(nx.pc - 1) : Applied(Plan(nx)[i])
                /\ pr.st = "err" => nx = pr]_vars

\* markAsUnread of 2 then 1 failed at the second id: message 2 has lost \Seen
\* and no command was issued twice
C37_Witness ==
    \E p \in Procs :
        /\ procs[p].op = "markAsUnread"
        /\ procs[p].ids = <<2, 1>>
        /\ procs[p].st = "err"
        /\ procs[p].pc = 2
        /\ Has(procs[p].trace, "messageFlagsRemove")
        /\ "Seen" \notin mbox["INBOX"][Find("INBOX", 2)].flags

FlagCmds == {"messageFlagsAdd", "messageFlagsRemove"}

\* C38: in a modifyLabels call (its ids being distinct) no flag command comes
\* after a move that the call issued for the same id, and every flag command
\* and every move is issued for INBOX: the flag changes of an id all precede
\* its move.
C38_FlagsBeforeMove ==
    \A p \in Procs :
        LET pr == procs[p]
        IN  pr.op = "modifyLabels" =>
               \A j, k \in DOMAIN pr.trace :
                   /\ pr.trace[k].e \in FlagCmds \cup {"messageMove"} =>
                         Plan(pr)[pr.trace[k].i].mb = "INBOX"
                   /\ (j < k /\ pr.trace[j].e = "messageMove" /\ pr.trace[k].e \in FlagCmds) =>
                         Plan(pr)[pr.trace[j].i].id # Plan(pr)[pr.trace[k].i].id

\* a call that stars and trashes 2 and then 1 has returned: both messages are
\* in Trash and carry \Starred
C38_Witness ==
    \E p \in Procs :
        /\ procs[p].op = "modifyLabels"
        /\ procs[p].ids = <<2, 1>>
        /\ procs[p].add = {"STARRED", "TRASH"}
        /\ procs[p].st = "ok"
        /\ Len(mbox["Trash"]) = 2
        /\ \A k \in 1..2 : "Starred" \in mbox["Trash"][k].flags

\* C39: the password in the configuration that connectionToDriver builds is
\* the password that was entered when the connection was added.
C39_PasswordRoundTrip ==
    conn.stage = "driver" => conn.config.passwordPlainText = conn.input.password

\* C40: the manager that connectionToDriver builds has a POP3 session, made
\* from pop3Host, pop3Port and pop3Tls of the record, exactly when the record
\* has pop3Host set.
C40_Pop3FromRecord ==
    conn.stage = "driver" =>
        IF conn.stored.pop3Host # "none"
        THEN /\ pop3cfg
             /\ conn.config.pop3 = [host |-> conn.stored.pop3Host,
                                    port |-> conn.stored.pop3Port,
                                    tls |-> conn.stored.pop3Tls]
        ELSE ~pop3cfg

====
